---- MODULE Spec2Model ----
(***************************************************************************)
(* Model of the model-ensembling cells of                                  *)
(* src/Ch7.3_BatchNorm_HyperParams_Ensembling.ipynb.                       *)
(*                                                                         *)
(* The notebook holds two ensembling code cells.  Each asks four fitted    *)
(* models for their predictions on x_val and binds final_preds to a        *)
(* weighted sum of the four prediction matrices.  The state of the model   *)
(* is the kernel namespace the cells write (preds_a .. preds_d,            *)
(* final_preds) and the outcome of the last run of each cell.              *)
(*                                                                         *)
(* Numbers are exact rationals.  A matrix is [den, m]: the entry at        *)
(* sample s and output dimension d is m[s][d] / den.  A decimal literal    *)
(* of the source is [num, den] (0.25 is 25/100).  Scaling by 0.25 is exact *)
(* in binary floating point, so exact arithmetic is what line 123          *)
(* computes; for 0.1 and 0.15 it idealises the rounding of the literals.   *)
(*                                                                         *)
(* The repository defines no combine and no search function: combine      *)
(* below is the weighted sum as section 4.1 of the specification words     *)
(* it, kept as the reference the notebook's expressions are compared to.   *)
(***************************************************************************)
EXTENDS Integers, Sequences, FiniteSets

\* Largest numerator of a prediction: predictions are 0/MaxVal .. MaxVal/MaxVal.
MaxVal == 2

\* Shape of every prediction matrix of the model: validation samples x output
\* dimensions.  predict() returns the same shape for the four models.
SampleIdx == 1..1
DimIdx == 1..2

\* The four ensemble members, in the order the cells name them.
Members == <<"a", "b", "c", "d">>
MemberSet == {Members[i] : i \in 1..Len(Members)}

\* The two ensembling cells.
Cells == {"average", "weighted"}

\* A name the namespace does not bind (no matrix has denominator 0).
Undefined == [den |-> 0, m |-> <<>>]

VARIABLES
    models,       \* models[x]: what model_x.predict(x_val) returns
    preds,        \* namespace: preds_a .. preds_d
    final_preds,  \* namespace: final_preds
    cellOutcome   \* per cell: "not_run", "ok" or "SyntaxError"

vars == <<models, preds, final_preds, cellOutcome>>

----------------------------------------------------------------------------
\* Numbers and matrices

Lit(n, d) == [num |-> n, den |-> d]

PredictionMatrices ==
    { [den |-> MaxVal, m |-> mm] : mm \in [SampleIdx -> [DimIdx -> 0..MaxVal]] }

\* ndarray + ndarray, element-wise
MatAdd(A, B) ==
    IF A.den = B.den
    THEN [den |-> A.den,
          m |-> [s \in SampleIdx |-> [d \in DimIdx |-> A.m[s][d] + B.m[s][d]]]]
    ELSE [den |-> A.den * B.den,
          m |-> [s \in SampleIdx |-> [d \in DimIdx |->
                    A.m[s][d] * B.den + B.m[s][d] * A.den]]]

\* float * ndarray, element-wise
MatScale(q, A) ==
    [den |-> q.den * A.den,
     m |-> [s \in SampleIdx |-> [d \in DimIdx |-> q.num * A.m[s][d]]]]

\* Equality of two matrices as rational matrices.
MatEq(A, B) ==
    \A s \in SampleIdx : \A d \in DimIdx : A.m[s][d] * B.den = B.m[s][d] * A.den

----------------------------------------------------------------------------
\* Section 4.1 of the specification: the element-wise weighted sum
\* sum_i weights[i] * predictions[i][sample][dim].

RECURSIVE WeightedSum(_, _, _)
WeightedSum(P, w, n) ==
    IF n = 1 THEN MatScale(w[1], P[1])
    ELSE MatAdd(WeightedSum(P, w, n - 1), MatScale(w[n], P[n]))

combine(P, w) == WeightedSum(P, w, Len(P))

\* w = [1/N]*N
EqualWeights(N) == [i \in 1..N |-> Lit(1, N)]

\* The unweighted average of the matrices of P: their sum divided by their number.
RECURSIVE MatSum(_, _)
MatSum(P, n) == IF n = 1 THEN P[1] ELSE MatAdd(MatSum(P, n - 1), P[n])

UnweightedAverage(P) == MatScale(Lit(1, Len(P)), MatSum(P, Len(P)))

----------------------------------------------------------------------------
\* The notebook

\* preds_x = model_x.predict(x_val), for the four models
Predict == [x \in MemberSet |-> models[x]]

\* A mis-typed average that leaves the fourth model out of the sum.
EnsembleAverageDropsLast(a, b, c, d) ==
    MatScale(Lit(25, 100), MatAdd(MatAdd(a, b), c))

\* final_preds = 0.25 * (preds_a + preds_b + preds_c + preds_d)
EnsembleAverage(a, b, c, d) ==
    MatScale(Lit(25, 100), MatAdd(MatAdd(MatAdd(a, b), c), d))

\* The weight each prediction matrix gets in the equal-weight cell: the single
\* factor 0.25 multiplies the sum of the four matrices.
\*   final_preds = 0.25 * (preds_a + preds_b + preds_c + preds_d)
AverageCellWeights == [i \in 1..Len(Members) |-> Lit(25, 100)]

\* The same vector with the last weight mis-typed as 0.25.
WeightedCellWeightsTypo == <<Lit(50, 100), Lit(25, 100), Lit(10, 100), Lit(25, 100)>>

\* The weights written in the weighted-average cell, in the order of its terms.
\*   final_preds = 0.5 * preds_a + 0.25 * preds_b + 0.1 * preds_c + 0.15 * preds_d 1
WeightedCellWeights == <<Lit(50, 100), Lit(25, 100), Lit(10, 100), Lit(15, 100)>>

Init ==
    /\ models \in [MemberSet -> PredictionMatrices]
    /\ preds = [x \in MemberSet |-> Undefined]
    /\ final_preds = Undefined
    /\ cellOutcome = [c \in Cells |-> "not_run"]

\* Run the first ensembling cell: four predict calls, then the equal-weight average.
RunAverageCell ==
    /\ preds' = Predict
    /\ final_preds' = EnsembleAverage(preds'["a"], preds'["b"], preds'["c"], preds'["d"])
    /\ cellOutcome' = [cellOutcome EXCEPT !["average"] = "ok"]
    /\ UNCHANGED models

\* Run the second ensembling cell.  Its last line is
\*   final_preds = 0.5 * preds_a + 0.25 * preds_b + 0.1 * preds_c + 0.15 * preds_d 1
\* The trailing "1" makes the cell's source invalid Python: the cell is rejected
\* when it is compiled, before any of its statements runs, so nothing is bound.
RunWeightedCell ==
    /\ cellOutcome' = [cellOutcome EXCEPT !["weighted"] = "SyntaxError"]
    /\ UNCHANGED <<models, preds, final_preds>>

Next == RunAverageCell \/ RunWeightedCell

Spec == Init /\ [][Next]_vars

\* The namespace is well-formed.
TypeOK ==
    /\ models \in [MemberSet -> PredictionMatrices]
    /\ \A x \in MemberSet : preds[x] = Undefined \/ preds[x] \in PredictionMatrices
    /\ cellOutcome \in [Cells -> {"not_run", "ok", "SyntaxError"}]

PredictionSet == <<preds["a"], preds["b"], preds["c"], preds["d"]>>

----------------------------------------------------------------------------
\* C4: once the weighted-average cell has been run, final_preds is the weighted
\* sum of the four prediction matrices with weights 0.5, 0.25, 0.1, 0.15, i.e.
\* combine(<<preds_a, preds_b, preds_c, preds_d>>, <<0.5, 0.25, 0.1, 0.15>>).
C4_WeightedCellIsWeightedSum ==
    cellOutcome["weighted"] # "not_run" =>
        /\ cellOutcome["weighted"] = "ok"
        /\ final_preds # Undefined
        /\ \A x \in MemberSet : preds[x] # Undefined
        /\ MatEq(final_preds,
                 combine(PredictionSet,
                         <<Lit(50, 100), Lit(25, 100), Lit(10, 100), Lit(15, 100)>>))

\* C6: once the equal-weight cell has been run, final_preds equals combine of
\* the four prediction matrices with the equal weight vector [1/4]*4, which is
\* their unweighted average; and for every N up to 4, combine of the first N
\* matrices with [1/N]*N equals the unweighted average of those N matrices.
C6_EqualWeightsIsAverage ==
    cellOutcome["average"] = "ok" =>
        /\ final_preds # Undefined
        /\ MatEq(final_preds, combine(PredictionSet, EqualWeights(4)))
        /\ MatEq(final_preds, UnweightedAverage(PredictionSet))
        /\ \A n \in 1..4 :
              MatEq(combine(SubSeq(PredictionSet, 1, n), EqualWeights(n)),
                    UnweightedAverage(SubSeq(PredictionSet, 1, n)))

\* The equal-weight cell has run on four models that disagree, the fourth
\* predicting something the others do not.
C6_Witness ==
    /\ cellOutcome["average"] = "ok"
    /\ final_preds # Undefined
    /\ preds["a"] # preds["b"]
    /\ preds["d"] # Undefined
    /\ preds["d"].m[1][1] = MaxVal
    /\ preds["a"].m[1][1] = 0
    /\ final_preds.m[1][1] > 0

----------------------------------------------------------------------------
\* Section 3 and 4.1 of the specification: a WeightVector for N members has N
\* entries, each non-negative, summing to 1.

RECURSIVE RatSum(_, _)
RatSum(w, n) ==
    IF n = 0 THEN Lit(0, 1)
    ELSE LET r == RatSum(w, n - 1)
         IN  Lit(r.num * w[n].den + w[n].num * r.den, r.den * w[n].den)

IsWeightVector(w, N) ==
    /\ Len(w) = N
    /\ \A i \in 1..Len(w) : w[i].den > 0 /\ w[i].num >= 0
    /\ RatSum(w, Len(w)).num = RatSum(w, Len(w)).den

====
